---- MODULE Spec2Model ----
(***************************************************************************)
(* Drift-detection job orchestration of cloudguard-watch:                  *)
(*   routes/driftDetection.ts   (listStacksHandler, triggerDriftHandler,   *)
(*                               processDriftDetectionJobs)                *)
(*   lib/cloudformationHelpers.ts (remote gateway)                         *)
(*   server.ts                  (the 2-minute timer that starts a tick)    *)
(*   prisma/schema.prisma       (tables and their unique constraints)      *)
(* Every store write of the source is one step, taken together with the    *)
(* reads and remote calls that precede it: request handlers and ticks      *)
(* interleave between any two writes.                                      *)
(***************************************************************************)
EXTENDS Integers, Sequences, FiniteSets, TLC

NULL == "NULL"

\* ------------------------------------------------------------ universe
Users == {"u1"}
AccountIds == {"a1"}
StackNames == {"s1", "s2"}
Resources == {"r1", "r2"}
ResourceDriftStatuses == {"MODIFIED", "DELETED"}
TickIds == {1, 2}
DefaultRegion == "us-east-1"

\* Remote detections the model lets the remote accept (one job each at most).
MaxDetections == 2

IN_PROGRESS == "DETECTION_IN_PROGRESS"
COMPLETE == "DETECTION_COMPLETE"
FAILED == "DETECTION_FAILED"

\* 24 * 60 * 60 * 1000 ms, in hours
RetentionHours == 24

\* completedAt DateTime? when it is null: a value no clock reading equals.
NoTime == -1

VARIABLES
  accounts,      \* aws_accounts rows (Account Credential Grants)
  stacks,        \* cloudformation_stacks rows
  nextStackId,   \* next fresh CloudFormationStack.id (cuid)
  driftResults,  \* stack_drift_results rows
  jobs,          \* drift_detection_jobs rows, in creation order (id = index)
  remote,        \* the remote's drift detections (driftDetectionId = index)
  now,           \* Date.now(), in hours
  tick,          \* in-flight processDriftDetectionJobs invocations
  req,           \* the in-flight HTTP request (trigger or list)
  owed,          \* history: job -> drift status the remote reported for it when
                 \* a tick stopped between the job write and the stack write
  refetch,       \* history: jobs whose detail fetch failed and has not succeeded
  cfn,           \* the remote's stacks of the account and region, and its page size
  conn           \* the connect requests in flight and the count of accounts created
                 \* since

vars ==
  <<accounts, stacks, nextStackId, driftResults, jobs, remote, now, tick, req, owed, refetch, cfn, conn>>

\* ------------------------------------------------------------- helpers
JobIds == 1..Len(jobs)

\* @@unique([awsAccountId, stackName, region]) lookup
StackRows(accountId, stackName, region) ==
  {s \in stacks : s.awsAccountId = accountId /\ s.stackName = stackName /\ s.region = region}

JobStackRows(j) == StackRows(jobs[j].awsAccountId, jobs[j].stackName, jobs[j].region)

ResultsOf(rows, stackId) == {r \in rows : r.stackId = stackId}

\* The rows of a stack as the remote list that would produce them.
RowsFor(stackId, drifts) ==
  {[stackId |-> stackId, resourceLogicalId |-> drifts[i].logicalResourceId,
    driftStatus |-> drifts[i].driftStatus] : i \in 1..Len(drifts)}

\* Length of the lists the remote detail call returns.
MaxDrifts == 2

DriftDescriptors == [logicalResourceId : Resources, driftStatus : ResourceDriftStatuses]

\* Every list of descriptors getStackResourceDrifts can build, repeated logical
\* ids included.
AllDriftLists == UNION {[1..n -> DriftDescriptors] : n \in 0..MaxDrifts}

\* Lists the remote detail call returns: each logical resource at most once.
DriftLists ==
  {l \in AllDriftLists :
     \A i, j \in 1..Len(l) : l[i].logicalResourceId = l[j].logicalResourceId => i = j}

\* The lists the remote returns in the full system: one drift status, one order.
RemoteDriftLists ==
  {l \in DriftLists : /\ \A i \in 1..Len(l) : l[i].driftStatus = "MODIFIED"
                      /\ Len(l) = 2 => l[1].logicalResourceId = "r1"}

\* getUserAwsCredentials: the user's connected accounts, most recent first.
ConnectedAccounts(userId) ==
  {a \in accounts : a.userId = userId /\ a.status = "connected"}

PrimaryAccount(userId) ==
  CHOOSE a \in ConnectedAccounts(userId) :
    \A b \in ConnectedAccounts(userId) : b.createdAt <= a.createdAt

\* DescribeStacks' DriftInformation.StackDriftStatus: the result of the stack's
\* latest completed detection, NOT_CHECKED before any.
RemoteStackDrift(stackName) ==
  LET done == {d \in 1..Len(remote) :
                 /\ remote[d].stackName = stackName
                 /\ remote[d].status = COMPLETE}
  IN IF done = {} THEN "NOT_CHECKED"
     ELSE remote[CHOOSE d \in done : \A e \in done : e <= d].driftStatus

RemoteDetecting(stackName) ==
  \E d \in 1..Len(remote) :
    remote[d].stackName = stackName /\ remote[d].status = IN_PROGRESS

\* The remote's answer to one DescribeStacks call: the page of at most pageSize
\* stacks that starts at token, and the token of the next page (0: none).
DescribeStacks(names, pageSize, token) ==
  LET last == IF token + pageSize - 1 < Len(names) THEN token + pageSize - 1 ELSE Len(names)
  IN [Stacks |-> SubSeq(names, token, last),
      NextToken |-> IF last < Len(names) THEN last + 1 ELSE 0]

\* One DescribeStacksCommand({}) is sent; the stacks of its response are
\* transformed in order and returned, and the response's NextToken is not read.
listCloudFormationStacks(listing) ==
  LET response == DescribeStacks(listing.names, listing.pageSize, 1)
  IN [i \in 1..Len(response.Stacks) |->
        [stackName |-> response.Stacks[i],
         driftStatus |-> RemoteStackDrift(response.Stacks[i])]]

\* The account has the stacks s1 and s2 and the remote answers with both at once.
WholeListing == [names |-> <<"s1", "s2">>, pageSize |-> 2]

RemoteStackList == listCloudFormationStacks(cfn)

\* ---------------------------------------------------------------- init
ConnIds == {1, 2}

IdleConn ==
  [pc |-> "idle", user |-> NULL, accountId |-> NULL, region |-> NULL,
   resp |-> 0, error |-> NULL]

NoConnects == [req |-> [c \in ConnIds |-> IdleConn], started |-> 0, created |-> 0]

\* driftResult before getDriftDetectionStatus has returned.
NoResult == [status |-> NULL, driftStatus |-> NULL, failureReason |-> NULL]

\* The locals of one invocation: fetched is set once getStackResourceDrifts has
\* returned drifts; stack is the id of the stack record found (0: none, ids
\* start at 1); before is the stack's snapshot when the replacement started.
IdleTick ==
  [pc |-> "idle", pending |-> <<>>, account |-> NULL, driftResult |-> NoResult,
   error |-> NULL, fetched |-> FALSE, drifts |-> <<>>, k |-> 0, stack |-> 0,
   before |-> {}, owedAtStart |-> {}]

IdleReq ==
  [kind |-> NULL, pc |-> "idle", user |-> NULL, stackName |-> NULL,
   account |-> NULL, detId |-> NULL, awsStacks |-> <<>>, resp |-> NULL]

Init ==
  /\ accounts = {[id |-> "acc1", userId |-> "u1", accountId |-> "a1",
                  region |-> NULL, status |-> "connected", createdAt |-> 0]}
  /\ stacks = {}
  /\ nextStackId = 1
  /\ driftResults = {}
  /\ jobs = <<>>
  /\ remote = <<>>
  /\ now = 0
  /\ tick = [t \in TickIds |-> IdleTick]
  /\ req = IdleReq
  /\ owed = <<>>
  /\ refetch = {}
  /\ cfn = WholeListing
  /\ conn = NoConnects

\* ------------------------------------------------- request handlers
Region(account) == IF account.region = NULL THEN DefaultRegion ELSE account.region

\* reply.status(code).send(...): the reply is observable in the step that sends it,
\* and the handler returns before anything else runs.
Reply(code) == [req EXCEPT !.pc = "replied", !.resp = code]

Ready == req.pc # "replied"

ReqReturn ==
  /\ req.pc = "replied"
  /\ req' = IdleReq
  /\ UNCHANGED <<accounts, stacks, nextStackId, driftResults, jobs, remote, now, tick, owed, refetch, cfn, conn>>

\* A request write to a stack row supersedes what an interrupted tick owed it.
CancelOwed(accountId, stackName, region) ==
  [j \in DOMAIN owed |->
     IF /\ jobs[j].awsAccountId = accountId
        /\ jobs[j].stackName = stackName
        /\ jobs[j].region = region
     THEN NULL ELSE owed[j]]

\* The status codes assumeRole's ApiError carries: 403 (AccessDenied; 400 and 401
\* are relayed to the caller the same way) and 500 (anything else).
AssumeErrorCodes == {403, 500}

\* getUserAwsCredentials without its test for an empty list of accounts.
CredentialErrorsUnchecked(u) == {500} \cup AssumeErrorCodes

\* What getUserAwsCredentials throws for user u, as the handler's reply: the
\* account query fails (a plain Error: 500), no connected account (ApiError 404),
\* or assumeRole fails.
CredentialErrors(u) ==
  {500} \cup (IF ConnectedAccounts(u) = {} THEN {404} ELSE AssumeErrorCodes)

\* POST /api/drift/trigger (authenticated, body validated) up to the first store
\* write: getUserAwsCredentials, then triggerStackDriftDetection, where
\* DetectStackDrift is accepted (a fresh detection id) or refused (stack not
\* found, detection already running, throttled, ...).
TriggerRequest(u, s) ==
  /\ req.pc = "idle"
  /\ Len(remote) < MaxDetections
  /\ \/ /\ \E code \in CredentialErrors(u) :
             req' = [IdleReq EXCEPT !.kind = "trigger", !.pc = "replied", !.user = u,
                                    !.stackName = s, !.resp = code]
        /\ UNCHANGED remote
     \/ /\ ConnectedAccounts(u) # {}
        /\ req' = [IdleReq EXCEPT !.kind = "trigger", !.pc = "replied", !.user = u,
                                  !.stackName = s, !.resp = 500]
        /\ UNCHANGED remote
     \/ /\ ConnectedAccounts(u) # {}
        /\ ~RemoteDetecting(s)
        /\ remote' = Append(remote, [stackName |-> s, status |-> IN_PROGRESS,
                                     driftStatus |-> NULL, failureReason |-> NULL])
        /\ req' = [IdleReq EXCEPT !.kind = "trigger", !.pc = "createJob", !.user = u,
                                  !.stackName = s, !.account = PrimaryAccount(u),
                                  !.detId = Len(remote) + 1]
  /\ UNCHANGED <<accounts, stacks, nextStackId, driftResults, jobs, now, tick, owed, refetch, cfn, conn>>

\* GET /api/drift/stacks (authenticated) up to the first store write:
\* getUserAwsCredentials, then listCloudFormationStacks (one DescribeStacks call).
ListRequest(u) ==
  /\ req.pc = "idle"
  /\ \/ \E code \in CredentialErrors(u) :
          req' = [IdleReq EXCEPT !.kind = "list", !.pc = "replied", !.user = u, !.resp = code]
     \/ /\ ConnectedAccounts(u) # {}
        /\ req' = [IdleReq EXCEPT !.kind = "list", !.pc = "upsert", !.user = u,
                                  !.account = PrimaryAccount(u),
                                  !.awsStacks = RemoteStackList]
  /\ UNCHANGED <<accounts, stacks, nextStackId, driftResults, jobs, remote, now, tick, owed, refetch, cfn, conn>>

\* A job row that does not carry the detection id the remote returned.
NewJobWithoutId(accountId, stackName, region, detId) ==
  [awsAccountId |-> accountId, stackName |-> stackName, region |-> region,
   driftDetectionId |-> 0, status |-> IN_PROGRESS, failureReason |-> NULL,
   startedAt |-> now, completedAt |-> NoTime]

NewJob(accountId, stackName, region, detId) ==
  [awsAccountId |-> accountId, stackName |-> stackName, region |-> region,
   driftDetectionId |-> detId, status |-> IN_PROGRESS, failureReason |-> NULL,
   startedAt |-> now, completedAt |-> NoTime]

\* prisma.driftDetectionJob.create
TriggerCreateJob ==
  /\ req.pc = "createJob"
  /\ \/ /\ jobs' = Append(jobs, NewJob(req.account.accountId, req.stackName,
                                       Region(req.account), req.detId))
        /\ owed' = Append(owed, NULL)
        /\ req' = [req EXCEPT !.pc = "flagStack"]
     \/ /\ req' = Reply(500)
        /\ UNCHANGED <<jobs, owed, refetch, cfn, conn>>
  /\ UNCHANGED <<accounts, stacks, nextStackId, driftResults, remote, now, tick, refetch, cfn, conn>>

\* prisma.cloudFormationStack.updateMany({ data: { driftStatus, ... } })
UpdateManyDriftStatus(rows, accountId, stackName, region, driftStatus) ==
  {IF s.awsAccountId = accountId /\ s.stackName = stackName /\ s.region = region
   THEN [s EXCEPT !.driftStatus = driftStatus] ELSE s : s \in rows}

TriggerFlagStack ==
  /\ req.pc = "flagStack"
  /\ \/ /\ stacks' = UpdateManyDriftStatus(stacks, req.account.accountId, req.stackName,
                                           Region(req.account), IN_PROGRESS)
        /\ owed' = CancelOwed(req.account.accountId, req.stackName, Region(req.account))
        /\ req' = Reply(200)
     \/ /\ req' = Reply(500)
        /\ UNCHANGED <<stacks, owed, refetch, cfn, conn>>
  /\ UNCHANGED <<accounts, nextStackId, driftResults, jobs, remote, now, tick, refetch, cfn, conn>>

\* prisma.cloudFormationStack.upsert for one listed stack
UpsertStack(rows, account, stack, newId) ==
  IF \E s \in rows : /\ s.awsAccountId = account.accountId
                     /\ s.stackName = stack.stackName
                     /\ s.region = Region(account)
  THEN UpdateManyDriftStatus(rows, account.accountId, stack.stackName, Region(account),
                             stack.driftStatus)
  ELSE rows \cup {[id |-> newId, awsAccountDbId |-> account.id,
                   awsAccountId |-> account.accountId, stackName |-> stack.stackName,
                   region |-> Region(account), driftStatus |-> stack.driftStatus]}

\* The first n upserts of the listing loop, in order.
RECURSIVE UpsertAll(_, _, _, _, _)
UpsertAll(rows, account, list, n, newId) ==
  IF n = 0 THEN rows
  ELSE LET fresh == ~\E s \in rows : /\ s.awsAccountId = account.accountId
                                     /\ s.stackName = Head(list).stackName
                                     /\ s.region = Region(account)
       IN UpsertAll(UpsertStack(rows, account, Head(list), newId), account, Tail(list),
                    n - 1, IF fresh THEN newId + 1 ELSE newId)

CancelOwedAll(list, account, n) ==
  [j \in DOMAIN owed |->
     IF \E i \in 1..n : /\ jobs[j].awsAccountId = account.accountId
                        /\ jobs[j].stackName = list[i].stackName
                        /\ jobs[j].region = Region(account)
     THEN NULL ELSE owed[j]]

\* "Update database with stack information": the loop of upserts over the list the
\* remote returned, to its end (200) or to the first upsert that throws (500).
ListUpsert ==
  /\ req.pc = "upsert"
  /\ \E n \in 0..Len(req.awsStacks) :
       /\ n > 0 => \E a \in accounts : a.id = req.account.id   \* the relation's foreign key
       /\ stacks' = UpsertAll(stacks, req.account, req.awsStacks, n, nextStackId)
       /\ nextStackId' = nextStackId + Cardinality(stacks') - Cardinality(stacks)
       /\ owed' = CancelOwedAll(req.awsStacks, req.account, n)
       /\ \/ n = Len(req.awsStacks) /\ req' = Reply(200)
          \/ n < Len(req.awsStacks) /\ req' = Reply(500)
  /\ UNCHANGED <<accounts, driftResults, jobs, remote, now, tick, refetch, cfn, conn>>

\* The remote finishes a detection.
RemoteOutcomes ==
  {[status |-> COMPLETE, driftStatus |-> "IN_SYNC", failureReason |-> NULL],
   [status |-> COMPLETE, driftStatus |-> "DRIFTED", failureReason |-> NULL],
   [status |-> FAILED, driftStatus |-> "UNKNOWN", failureReason |-> "remote reason"]}

RemoteFinish(d) ==
  /\ Ready
  /\ remote[d].status = IN_PROGRESS
  /\ \E o \in RemoteOutcomes :
       remote' = [remote EXCEPT ![d] = [stackName |-> remote[d].stackName] @@ o]
  /\ UNCHANGED <<accounts, stacks, nextStackId, driftResults, jobs, now, tick, req, owed, refetch, cfn, conn>>

\* ------------------------------------------- processDriftDetectionJobs
Running(t) == tick[t].pc \notin {"idle", "done", "aborted"}

\* Tick t is at the step named pc.
At(t, pc) == Ready /\ tick[t].pc = pc

\* The job the loop body of tick t is at.
Cur(t) == Head(tick[t].pending)

SetTick(t, r) == tick' = [tick EXCEPT ![t] = r]

\* The scan without its startedAt bound.
OutstandingAnyAge(j) == jobs[j].status = IN_PROGRESS

\* where: { status: 'DETECTION_IN_PROGRESS', startedAt: { gte: now - 24h } }
Outstanding(j) ==
  /\ jobs[j].status = IN_PROGRESS
  /\ jobs[j].startedAt >= now - RetentionHours

PendingJobs == SelectSeq([j \in 1..Len(jobs) |-> j], Outstanding)

\* setInterval(processDriftJobs, 2 min) fires, or startServer's initial call: a
\* new invocation starts whether or not an earlier one has returned.
StartTick(t) ==
  /\ Ready
  /\ ~Running(t)
  /\ \A u \in TickIds : u < t => Running(u)
  /\ SetTick(t, [IdleTick EXCEPT !.pc = "findMany"])
  /\ UNCHANGED <<accounts, stacks, nextStackId, driftResults, jobs, remote, now, req, owed, refetch, cfn, conn>>

\* prisma.driftDetectionJob.findMany; a throw lands in the outer catch.
TickFindMany(t) ==
  /\ At(t, "findMany")
  /\ \/ SetTick(t, [tick[t] EXCEPT
                      !.pc = IF PendingJobs = <<>> THEN "done" ELSE "poll",
                      !.pending = PendingJobs,
                      !.owedAtStart = {j \in DOMAIN owed : owed[j] # NULL}])
     \/ SetTick(t, [tick[t] EXCEPT !.pc = "aborted"])
  /\ UNCHANGED <<accounts, stacks, nextStackId, driftResults, jobs, remote, now, req, owed, refetch, cfn, conn>>

\* error.message of what the job's catch receives: a store call threw, or a remote
\* call did: assumeRole or getDriftDetectionStatus (timeout, throttling, service
\* unavailable, ...: the helpers wrap every failure in one ApiError).
ErrStore == "store call failed"
ErrRemote == "remote call failed"

\* A throw that no handler of the loop body receives.
ThrowPastHandler(t, error) == SetTick(t, [tick[t] EXCEPT !.pc = "aborted", !.error = error])

Throw(t, error) == SetTick(t, [tick[t] EXCEPT !.pc = "catch", !.error = error])

\* The reads that open the loop body: prisma.awsAccount.findFirst({ accountId:
\* job.awsAccountId, status: 'connected' }), assumeRole, getDriftDetectionStatus.
\* Any of them may throw into the job's catch.
TickPoll(t) ==
  /\ At(t, "poll")
  /\ LET found == {a \in accounts : a.accountId = jobs[Cur(t)].awsAccountId
                                     /\ a.status = "connected"}
         d == remote[jobs[Cur(t)].driftDetectionId]
     IN
       \/ \E a \in found :
            SetTick(t, [tick[t] EXCEPT !.pc = "updateJob", !.account = a,
                          !.driftResult = [status |-> d.status, driftStatus |-> d.driftStatus,
                                           failureReason |-> d.failureReason]])
       \/ found = {} /\ SetTick(t, [tick[t] EXCEPT !.pc = "markMissing"])
       \/ Throw(t, ErrStore)
       \/ found # {} /\ Throw(t, ErrRemote)
  /\ UNCHANGED <<accounts, stacks, nextStackId, driftResults, jobs, remote, now, req, owed, refetch, cfn, conn>>

\* prisma.driftDetectionJob.update({ where: { id }, data })
UpdateJob(rows, j, status, failureReason, completedAt) ==
  [rows EXCEPT ![j].status = status, ![j].failureReason = failureReason,
               ![j].completedAt = completedAt]

\* if (!awsAccount) { update job FAILED; continue }
TickMarkMissing(t) ==
  /\ At(t, "markMissing")
  /\ \/ /\ jobs' = UpdateJob(jobs, Cur(t), FAILED,
                             "AWS account not found or disconnected", now)
        /\ SetTick(t, [tick[t] EXCEPT !.pc = "iterEnd"])
     \/ /\ Throw(t, ErrStore)
        /\ UNCHANGED jobs
  /\ UNCHANGED <<accounts, stacks, nextStackId, driftResults, remote, now, req, owed, refetch, cfn, conn>>

\* The job row stamped with completedAt whatever the remote answered.
JobFromResultStamped(rows, j, driftResult) ==
  UpdateJob(rows, j, driftResult.status, driftResult.failureReason, now)

\* The job row written from the remote's answer.
JobFromResult(rows, j, driftResult) ==
  UpdateJob(rows, j, driftResult.status, driftResult.failureReason,
            IF driftResult.status # IN_PROGRESS THEN now ELSE NoTime)

\* "Update job status", then the test that guards the stack update.
TickUpdateJob(t) ==
  /\ At(t, "updateJob")
  /\ \/ /\ jobs' = JobFromResult(jobs, Cur(t), tick[t].driftResult)
        /\ SetTick(t, [tick[t] EXCEPT !.pc =
             IF tick[t].driftResult.status = COMPLETE /\ tick[t].driftResult.driftStatus # NULL
             THEN "updateStack" ELSE "iterEnd"])
     \/ /\ Throw(t, ErrStore)
        /\ UNCHANGED jobs
  /\ UNCHANGED <<accounts, stacks, nextStackId, driftResults, remote, now, req, owed, refetch, cfn, conn>>

\* The tick stopped after the job write and before the stack write.
Owe(j, driftStatus) ==
  IF JobStackRows(j) # {} THEN [owed EXCEPT ![j] = driftStatus] ELSE owed

\* The stack update followed by the detail block whatever the drift status.
TickUpdateStackThenDetail(t) ==
  /\ At(t, "updateStack")
  /\ LET job == jobs[Cur(t)] IN
       \/ /\ stacks' = UpdateManyDriftStatus(stacks, job.awsAccountId, job.stackName,
                                             job.region, tick[t].driftResult.driftStatus)
          /\ owed' = [owed EXCEPT ![Cur(t)] = NULL]
          /\ SetTick(t, [tick[t] EXCEPT !.pc = "detail"])
       \/ /\ Throw(t, ErrStore)
          /\ owed' = Owe(Cur(t), tick[t].driftResult.driftStatus)
          /\ UNCHANGED stacks
  /\ UNCHANGED <<accounts, nextStackId, driftResults, jobs, remote, now, req, refetch, cfn, conn>>

\* "Update stack drift status if detection is complete"
TickUpdateStack(t) ==
  /\ At(t, "updateStack")
  /\ LET job == jobs[Cur(t)] IN
       \/ /\ stacks' = UpdateManyDriftStatus(stacks, job.awsAccountId, job.stackName,
                                             job.region, tick[t].driftResult.driftStatus)
          /\ owed' = [owed EXCEPT ![Cur(t)] = NULL]
          /\ SetTick(t, [tick[t] EXCEPT !.pc =
               IF tick[t].driftResult.driftStatus = "DRIFTED" THEN "detail" ELSE "iterEnd"])
       \/ /\ Throw(t, ErrStore)
          /\ owed' = Owe(Cur(t), tick[t].driftResult.driftStatus)
          /\ UNCHANGED stacks
  /\ UNCHANGED <<accounts, nextStackId, driftResults, jobs, remote, now, req, refetch, cfn, conn>>

\* The detail block without its own try / catch: a failed fetch reaches the
\* job's catch.
TickDetailUncaught(t) ==
  /\ At(t, "detail")
  /\ \/ /\ \E l \in RemoteDriftLists, s \in JobStackRows(Cur(t)) :
             SetTick(t, [tick[t] EXCEPT !.pc = "deleteMany", !.fetched = TRUE,
                                        !.drifts = l, !.stack = s.id,
                                        !.before = ResultsOf(driftResults, s.id)])
        /\ refetch' = refetch \ {Cur(t)}
     \/ /\ Throw(t, ErrRemote)
        /\ refetch' = refetch \cup {Cur(t)}
  /\ UNCHANGED <<accounts, stacks, nextStackId, driftResults, jobs, remote, now, req, owed, cfn, conn>>

\* getStackResourceDrifts(credentials, job.stackName), then "Find the stack
\* record"; if (stack) guards the replacement. A throw of either is logged by the
\* inner catch around the detail block.
TickDetail(t) ==
  /\ At(t, "detail")
  /\ \/ /\ \E l \in RemoteDriftLists, s \in JobStackRows(Cur(t)) :
             SetTick(t, [tick[t] EXCEPT !.pc = "deleteMany", !.fetched = TRUE,
                                        !.drifts = l, !.stack = s.id,
                                        !.before = ResultsOf(driftResults, s.id)])
        /\ refetch' = refetch \ {Cur(t)}
     \/ /\ JobStackRows(Cur(t)) = {}
        /\ \E l \in RemoteDriftLists :
             SetTick(t, [tick[t] EXCEPT !.pc = "iterEnd", !.fetched = TRUE, !.drifts = l])
        /\ refetch' = refetch \ {Cur(t)}
     \/ /\ SetTick(t, [tick[t] EXCEPT !.pc = "iterEnd"])
        /\ refetch' = refetch \cup {Cur(t)}
  /\ UNCHANGED <<accounts, stacks, nextStackId, driftResults, jobs, remote, now, req, owed, cfn, conn>>

\* A delete that removes one matching row only.
DeleteOnlyFirst(rows, stackId) ==
  IF ResultsOf(rows, stackId) = {} THEN rows
  ELSE rows \ {CHOOSE r \in ResultsOf(rows, stackId) : TRUE}

\* prisma.stackDriftResult.deleteMany({ where: { stackId } })
DeleteMany(rows, stackId) == {r \in rows : r.stackId # stackId}

TickDeleteMany(t) ==
  /\ At(t, "deleteMany")
  /\ \/ /\ driftResults' = DeleteMany(driftResults, tick[t].stack)
        /\ SetTick(t, [tick[t] EXCEPT !.pc =
             IF tick[t].drifts = <<>> THEN "iterEnd" ELSE "create"])
     \/ /\ SetTick(t, [tick[t] EXCEPT !.pc = "iterEnd"])
        /\ UNCHANGED driftResults
  /\ UNCHANGED <<accounts, stacks, nextStackId, jobs, remote, now, req, owed, refetch, cfn, conn>>

\* @@unique([stackId, resourceLogicalId]) and the stack relation's foreign key
CreateAllowed(rows, stackRows, stackId, drift) ==
  /\ \E s \in stackRows : s.id = stackId
  /\ ~\E r \in rows : r.stackId = stackId
                      /\ r.resourceLogicalId = drift.logicalResourceId

\* prisma.stackDriftResult.create({ data })
CreateResult(rows, stackId, drift) ==
  rows \cup {[stackId |-> stackId, resourceLogicalId |-> drift.logicalResourceId,
              driftStatus |-> drift.driftStatus]}

TickCreate(t) ==
  /\ At(t, "create")
  /\ LET drift == tick[t].drifts[tick[t].k + 1] IN
       \/ /\ CreateAllowed(driftResults, stacks, tick[t].stack, drift)
          /\ driftResults' = CreateResult(driftResults, tick[t].stack, drift)
          /\ SetTick(t, [tick[t] EXCEPT !.k = @ + 1, !.pc =
               IF tick[t].k + 1 = Len(tick[t].drifts) THEN "iterEnd" ELSE "create"])
       \/ /\ SetTick(t, [tick[t] EXCEPT !.pc = "iterEnd"])
          /\ UNCHANGED driftResults
  /\ UNCHANGED <<accounts, stacks, nextStackId, jobs, remote, now, req, owed, refetch, cfn, conn>>

\* catch (error) { "Mark job as failed" }; a throw here leaves the loop through
\* the outer catch, with the rest of pendingJobs unprocessed.
TickCatch(t) ==
  /\ At(t, "catch")
  /\ \/ /\ jobs' = UpdateJob(jobs, Cur(t), FAILED, tick[t].error, now)
        /\ SetTick(t, [tick[t] EXCEPT !.pc = "iterEnd"])
     \/ /\ SetTick(t, [IdleTick EXCEPT !.pc = "aborted", !.pending = Tail(tick[t].pending),
                                       !.owedAtStart = tick[t].owedAtStart])
        /\ UNCHANGED jobs
  /\ UNCHANGED <<accounts, stacks, nextStackId, driftResults, remote, now, req, owed, refetch, cfn, conn>>

\* End of the loop body: the next job, or the function returns.
TickNext(t) ==
  /\ At(t, "iterEnd")
  /\ SetTick(t, [IdleTick EXCEPT
                   !.pc = IF Tail(tick[t].pending) = <<>> THEN "done" ELSE "poll",
                   !.pending = Tail(tick[t].pending),
                   !.owedAtStart = tick[t].owedAtStart])
  /\ UNCHANGED <<accounts, stacks, nextStackId, driftResults, jobs, remote, now, req, owed, refetch, cfn, conn>>

\* process.exit (uncaughtException, unhandledRejection, SIGTERM): every
\* in-flight invocation and request is gone; the store and the remote stay.
OwedAtExit ==
  [j \in DOMAIN owed |->
     IF \E t \in TickIds : tick[t].pc = "updateStack" /\ Cur(t) = j /\ JobStackRows(j) # {}
     THEN (CHOOSE d \in {tick[t].driftResult.driftStatus :
                           t \in {u \in TickIds : tick[u].pc = "updateStack" /\ Cur(u) = j}} : TRUE)
     ELSE owed[j]]

ProcessExit ==
  /\ Ready
  /\ \E t \in TickIds : Running(t)
  /\ tick' = [t \in TickIds |-> IdleTick]
  /\ req' = IdleReq
  /\ owed' = OwedAtExit
  /\ UNCHANGED <<accounts, stacks, nextStackId, driftResults, jobs, remote, now, refetch, cfn, conn>>

\* DELETE /api/aws-accounts/:accountId: findUnique, then prisma.awsAccount.delete;
\* onDelete: Cascade removes the account's stacks and their drift results.
DeleteAccount(u, accountId) ==
  /\ Ready
  /\ \E a \in accounts :
       /\ a.userId = u /\ a.accountId = accountId
       /\ accounts' = accounts \ {a}
       /\ stacks' = {s \in stacks : s.awsAccountDbId # a.id}
       /\ driftResults' = {r \in driftResults :
                             \E s \in stacks : s.id = r.stackId /\ s.awsAccountDbId # a.id}
  /\ UNCHANGED <<nextStackId, jobs, remote, now, tick, req, owed, refetch, cfn, conn>>

\* ---------------------------------------------------------------- spec
\* One tick in flight at a time: every tick returns within the timer's period.
SerialTicks == {1}

Next ==
  \/ \E u \in Users, s \in StackNames : TriggerRequest(u, s)
  \/ \E u \in Users : ListRequest(u)
  \/ TriggerCreateJob
  \/ TriggerFlagStack
  \/ ListUpsert
  \/ ReqReturn
  \/ \E u \in Users, a \in AccountIds : DeleteAccount(u, a)
  \/ \E d \in 1..Len(remote) : RemoteFinish(d)
  \/ \E t \in SerialTicks :
       \/ StartTick(t)
       \/ TickFindMany(t)
       \/ TickPoll(t)
       \/ TickMarkMissing(t)
       \/ TickUpdateJob(t)
       \/ TickUpdateStack(t)
       \/ TickDetail(t)
       \/ TickDeleteMany(t)
       \/ TickCreate(t)
       \/ TickCatch(t)
       \/ TickNext(t)
  \/ ProcessExit

Spec == Init /\ [][Next]_vars

\* A tick outlasts the timer's period: the timer starts a second invocation.
\* One stack is listed, with a detection triggered and outstanding.
InitOverlap ==
  /\ accounts = {[id |-> "acc1", userId |-> "u1", accountId |-> "a1",
                  region |-> NULL, status |-> "connected", createdAt |-> 0]}
  /\ stacks = {[id |-> 1, awsAccountDbId |-> "acc1", awsAccountId |-> "a1",
                stackName |-> "s1", region |-> DefaultRegion, driftStatus |-> IN_PROGRESS]}
  /\ nextStackId = 2
  /\ driftResults = {}
  /\ now = 0
  /\ jobs = <<NewJob("a1", "s1", DefaultRegion, 1)>>
  /\ remote = <<[stackName |-> "s1", status |-> IN_PROGRESS, driftStatus |-> NULL,
                 failureReason |-> NULL]>>
  /\ tick = [t \in TickIds |-> IdleTick]
  /\ req = IdleReq
  /\ owed = <<NULL>>
  /\ refetch = {}
  /\ cfn = WholeListing
  /\ conn = NoConnects

NextOverlap ==
  \/ \E d \in 1..Len(remote) : RemoteFinish(d)
  \/ \E t \in TickIds :
       \/ StartTick(t)
       \/ TickFindMany(t)
       \/ TickPoll(t)
       \/ TickUpdateJob(t)
       \/ TickUpdateStack(t)
       \/ TickDetail(t)
       \/ TickDeleteMany(t)
       \/ TickCreate(t)
       \/ TickCatch(t)
       \/ TickNext(t)

SpecOverlap == InitOverlap /\ [][NextOverlap]_vars

\* Two owners hold grants for the same AWS account id (@@unique([userId,
\* accountId]) allows it). u1 triggered a detection for s1 and then deleted their
\* grant, which took u1's stack records with it; u2 has listed the stack since.
\* The job row has no owner column and no relation to the grant: it stays.
GrantUsers == {"u1", "u2"}

InitGrant ==
  /\ accounts = {[id |-> "acc2", userId |-> "u2", accountId |-> "a1",
                  region |-> NULL, status |-> "connected", createdAt |-> 0]}
  /\ stacks = {[id |-> 2, awsAccountDbId |-> "acc2", awsAccountId |-> "a1",
                stackName |-> "s1", region |-> DefaultRegion, driftStatus |-> "NOT_CHECKED"]}
  /\ nextStackId = 3
  /\ driftResults = {}
  /\ now = 0
  /\ jobs = <<NewJob("a1", "s1", DefaultRegion, 1)>>
  /\ remote = <<[stackName |-> "s1", status |-> IN_PROGRESS, driftStatus |-> NULL,
                 failureReason |-> NULL]>>
  /\ tick = [t \in TickIds |-> IdleTick]
  /\ req = IdleReq
  /\ owed = <<NULL>>
  /\ refetch = {}
  /\ cfn = WholeListing
  /\ conn = NoConnects

NextGrant ==
  \/ \E u \in GrantUsers, a \in AccountIds : DeleteAccount(u, a)
  \/ \E d \in 1..Len(remote) : RemoteFinish(d)
  \/ \E t \in SerialTicks :
       \/ StartTick(t)
       \/ TickFindMany(t)
       \/ TickPoll(t)
       \/ TickMarkMissing(t)
       \/ TickUpdateJob(t)
       \/ TickUpdateStack(t)
       \/ TickDetail(t)
       \/ TickDeleteMany(t)
       \/ TickCreate(t)
       \/ TickCatch(t)
       \/ TickNext(t)

SpecGrant == InitGrant /\ [][NextGrant]_vars

\* Hours since the trigger at which ticks are observed.
MaxHours == 26

\* A detection triggered at hour 0 for a listed stack is still outstanding at
\* hour now: no tick has seen the remote finish it (the server was down, or the
\* remote has kept reporting DETECTION_IN_PROGRESS).
InitStale ==
  /\ accounts = {[id |-> "acc1", userId |-> "u1", accountId |-> "a1",
                  region |-> NULL, status |-> "connected", createdAt |-> 0]}
  /\ stacks = {[id |-> 1, awsAccountDbId |-> "acc1", awsAccountId |-> "a1",
                stackName |-> "s1", region |-> DefaultRegion, driftStatus |-> IN_PROGRESS]}
  /\ nextStackId = 2
  /\ driftResults = {}
  /\ now \in 0..MaxHours
  /\ jobs = <<[NewJob("a1", "s1", DefaultRegion, 1) EXCEPT !.startedAt = 0]>>
  /\ remote = <<[stackName |-> "s1", status |-> IN_PROGRESS, driftStatus |-> NULL,
                 failureReason |-> NULL]>>
  /\ tick = [t \in TickIds |-> IdleTick]
  /\ req = IdleReq
  /\ owed = <<NULL>>
  /\ refetch = {}
  /\ cfn = WholeListing
  /\ conn = NoConnects

NextStale ==
  \/ \E u \in Users : ListRequest(u)
  \/ ListUpsert
  \/ ReqReturn
  \/ \E d \in 1..Len(remote) : RemoteFinish(d)
  \/ \E t \in SerialTicks :
       \/ StartTick(t)
       \/ TickFindMany(t)
       \/ TickPoll(t)
       \/ TickUpdateJob(t)
       \/ TickUpdateStack(t)
       \/ TickDetail(t)
       \/ TickDeleteMany(t)
       \/ TickCreate(t)
       \/ TickCatch(t)
       \/ TickNext(t)

SpecStale == InitStale /\ [][NextStale]_vars

\* ------------------------------------------------ snapshot replacement
\* The create loop of the detail block from entry k + 1 on: it ends at the end
\* of the list or at the first create that throws (unique constraint).
RECURSIVE CreateFrom(_, _, _, _, _)
CreateFrom(rows, stackRows, stackId, drifts, k) ==
  IF k = Len(drifts) \/ ~CreateAllowed(rows, stackRows, stackId, drifts[k + 1]) THEN rows
  ELSE CreateFrom(CreateResult(rows, stackId, drifts[k + 1]), stackRows, stackId, drifts, k + 1)

\* "Clear existing drift results for this stack", then "Store new drift results",
\* with no store or remote failure in between.
ReplaceSnapshot(rows, stackRows, stackId, drifts) ==
  CreateFrom(DeleteMany(rows, stackId), stackRows, stackId, drifts, 0)

\* Tables the store can hold: rows of existing stacks, unique per
\* (stackId, resourceLogicalId).
ReplaceStacks ==
  {[id |-> i, awsAccountDbId |-> "acc1", awsAccountId |-> "a1",
    stackName |-> IF i = 1 THEN "s1" ELSE "s2", region |-> DefaultRegion,
    driftStatus |-> "DRIFTED"] : i \in {1, 2}}

ResultRows ==
  [stackId : {s.id : s \in ReplaceStacks}, resourceLogicalId : Resources,
   driftStatus : ResourceDriftStatuses]

UniqueKeys(rows) ==
  \A r, q \in rows :
    r.stackId = q.stackId /\ r.resourceLogicalId = q.resourceLogicalId => r = q

\* Any table, any stack of it, any returned list: the tick has found the stack
\* record of a DRIFTED job and is about to replace its snapshot.
InitReplace ==
  /\ accounts = {[id |-> "acc1", userId |-> "u1", accountId |-> "a1",
                  region |-> NULL, status |-> "connected", createdAt |-> 0]}
  /\ stacks = ReplaceStacks
  /\ nextStackId = 3
  /\ driftResults \in {rows \in SUBSET ResultRows : UniqueKeys(rows)}
  /\ now = 0
  /\ jobs = <<[NewJob("a1", "s1", DefaultRegion, 1) EXCEPT !.status = COMPLETE,
                                                           !.completedAt = 0],
              [NewJob("a1", "s2", DefaultRegion, 2) EXCEPT !.status = COMPLETE,
                                                           !.completedAt = 0]>>
  /\ remote = <<[stackName |-> "s1", status |-> COMPLETE, driftStatus |-> "DRIFTED",
                 failureReason |-> NULL],
                [stackName |-> "s2", status |-> COMPLETE, driftStatus |-> "DRIFTED",
                 failureReason |-> NULL]>>
  /\ \E j \in {1, 2}, l \in AllDriftLists :
       tick = [t \in TickIds |->
                 IF t = 1
                 THEN [IdleTick EXCEPT
                         !.pc = "deleteMany", !.pending = <<j>>,
                         !.account = CHOOSE a \in accounts : TRUE,
                         !.driftResult = [status |-> COMPLETE, driftStatus |-> "DRIFTED",
                                          failureReason |-> NULL],
                         !.fetched = TRUE, !.drifts = l, !.stack = j,
                         !.before = ResultsOf(driftResults, j)]
                 ELSE IdleTick]
  /\ req = IdleReq
  /\ owed = <<NULL, NULL>>
  /\ refetch = {}
  /\ cfn = WholeListing
  /\ conn = NoConnects

\* The detail block's replacement, run to its end.
Reconcile(t) ==
  /\ At(t, "deleteMany")
  /\ driftResults' = ReplaceSnapshot(driftResults, stacks, tick[t].stack, tick[t].drifts)
  /\ SetTick(t, [tick[t] EXCEPT !.pc = "iterEnd"])
  /\ UNCHANGED <<accounts, stacks, nextStackId, jobs, remote, now, req, owed, refetch, cfn, conn>>

\* The same replacement run again for the same job with the same remote list.
ReconcileAgain(t) ==
  /\ At(t, "iterEnd")
  /\ driftResults' = ReplaceSnapshot(driftResults, stacks, tick[t].stack, tick[t].drifts)
  /\ SetTick(t, [tick[t] EXCEPT !.pc = "done"])
  /\ UNCHANGED <<accounts, stacks, nextStackId, jobs, remote, now, req, owed, refetch, cfn, conn>>

NextReplace ==
  \/ Reconcile(1)
  \/ ReconcileAgain(1)

SpecReplace == InitReplace /\ [][NextReplace]_vars

\* -------------------------------------------------------------- claims
SameStack(j, k) ==
  /\ jobs[j].awsAccountId = jobs[k].awsAccountId
  /\ jobs[j].stackName = jobs[k].stackName
  /\ jobs[j].region = jobs[k].region

\* C1: at most one Drift Job with status DETECTION_IN_PROGRESS exists for any
\* (accountId, stackName, region), whatever triggers and ticks have run.
C1_OneOutstandingJobPerStack ==
  \A j, k \in JobIds :
    jobs[j].status = IN_PROGRESS /\ jobs[k].status = IN_PROGRESS /\ SameStack(j, k) => j = k

\* C2: a tick that selected several jobs never leaves the loop with jobs still
\* unprocessed because a step for an earlier job failed, the write that records
\* the earlier job's failure included.
C2_FaultIsolation ==
  \A t \in TickIds : tick[t].pc = "aborted" => tick[t].pending = <<>>

\* C3: a failed remote call (assumeRole or the status check) leaves the job
\* DETECTION_IN_PROGRESS; no job is DETECTION_FAILED with the failed call's
\* message as its reason.
C3_TransientKeepsInProgress ==
  \A j \in JobIds : ~(jobs[j].status = FAILED /\ jobs[j].failureReason = ErrRemote)

\* C4: at most one invocation of processDriftDetectionJobs is in flight at any
\* time.
C4_SingleTickInFlight ==
  Cardinality({t \in TickIds : Running(t)}) <= 1

\* C5: once a job's status is DETECTION_COMPLETE or DETECTION_FAILED, no step
\* changes its status, failureReason or completedAt.
C5_TerminalAbsorbing ==
  [][\A j \in JobIds :
       jobs[j].status \in {COMPLETE, FAILED} =>
         /\ jobs'[j].status = jobs[j].status
         /\ jobs'[j].failureReason = jobs[j].failureReason
         /\ jobs'[j].completedAt = jobs[j].completedAt]_vars

\* C6: in every state between two store writes, a stack has a
\* DETECTION_IN_PROGRESS job if and only if its stack record's driftStatus is
\* DETECTION_IN_PROGRESS.
C6_JobIffStackFlag ==
  /\ \A j \in JobIds :
       jobs[j].status = IN_PROGRESS => \E s \in JobStackRows(j) : s.driftStatus = IN_PROGRESS
  /\ \A s \in stacks :
       s.driftStatus = IN_PROGRESS =>
         \E j \in JobIds : jobs[j].status = IN_PROGRESS /\ s \in JobStackRows(j)

\* C7: when a tick stopped after a job's terminal status was written and before
\* the stack record was, the stack record's driftStatus equals what the remote
\* reported for the job once the next tick has returned.
C7_NextTickConverges ==
  \A t \in TickIds :
    tick[t].pc = "done" =>
      \A j \in tick[t].owedAtStart :
        owed[j] # NULL => \A s \in JobStackRows(j) : s.driftStatus = owed[j]

\* C8: replacing a stack's snapshot twice with the same remote list leaves the
\* same rows as replacing it once, with no two rows of one
\* (stackId, resourceLogicalId): for the replacement the tick has run, and for
\* the tick's stack and list applied to the table at hand.
C8_ReplaceIdempotent ==
  /\ UniqueKeys(driftResults)
  /\ \A t \in TickIds :
       tick[t].pc = "done" /\ tick[t].stack # 0 =>
         ResultsOf(driftResults, tick[t].stack) =
           ReplaceSnapshot(tick[t].before, stacks, tick[t].stack, tick[t].drifts)
  /\ \A t \in TickIds :
       tick[t].stack # 0 =>
         LET once == ReplaceSnapshot(driftResults, stacks, tick[t].stack, tick[t].drifts)
         IN /\ ReplaceSnapshot(once, stacks, tick[t].stack, tick[t].drifts) = once
            /\ UniqueKeys(once)

\* C8 witness: a replacement with a non-empty list over a non-empty earlier
\* snapshot was run twice, and it changed the snapshot.
C8_Witness ==
  /\ tick[1].pc = "done"
  /\ tick[1].stack # 0
  /\ tick[1].drifts # <<>>
  /\ tick[1].before # {}
  /\ ResultsOf(driftResults, tick[1].stack) # tick[1].before
  /\ ResultsOf(driftResults, tick[1].stack) # {}

\* C9: when the tick has seen DETECTION_COMPLETE / DRIFTED for a job and the
\* detail call has returned, the snapshot rows of the job's stack at the end of
\* the loop body are exactly the returned resources, one row each.
C9_SnapshotIsReturnedList ==
  \A t \in TickIds :
    ( /\ tick[t].pc = "iterEnd"
      /\ tick[t].fetched )
    => LET stored == {r \in driftResults : \E s \in JobStackRows(Cur(t)) : r.stackId = s.id}
       IN {[logicalResourceId |-> r.resourceLogicalId, driftStatus |-> r.driftStatus] :
             r \in stored}
          = {tick[t].drifts[i] : i \in 1..Len(tick[t].drifts)}

\* C10: while a tick replaces a stack's snapshot, the stack's rows are the
\* complete old set or the complete new set in every state.
C10_ReplaceAtomic ==
  \A t \in TickIds :
    tick[t].stack # 0 =>
      ResultsOf(driftResults, tick[t].stack) \in
        {tick[t].before, RowsFor(tick[t].stack, tick[t].drifts)}

\* The tick t has read DETECTION_COMPLETE with this drift status for its job.
Observed(t, driftStatus) ==
  /\ tick[t].driftResult.status = COMPLETE
  /\ tick[t].driftResult.driftStatus = driftStatus

\* C11: when a tick has read DETECTION_COMPLETE / IN_SYNC for a job, at the end
\* of the loop body the job is DETECTION_COMPLETE, its stack record's
\* driftStatus is IN_SYNC, and the tick has neither fetched resource drifts nor
\* started a snapshot replacement.
C11_InSyncScenario ==
  \A t \in TickIds :
    tick[t].pc = "iterEnd" /\ Observed(t, "IN_SYNC") =>
      /\ jobs[Cur(t)].status = COMPLETE
      /\ \A s \in JobStackRows(Cur(t)) : s.driftStatus = "IN_SYNC"
      /\ ~tick[t].fetched
      /\ tick[t].stack = 0

\* C12: the grant of the owner who triggered the job is gone: the tick makes no
\* remote call for the job, and once it has returned the job is
\* DETECTION_FAILED with the account-disconnected reason.
C12_DisconnectedMarksFailed ==
  \A t \in TickIds :
    /\ tick[t].driftResult = NoResult
    /\ tick[t].pc = "done" =>
         \A j \in JobIds :
           /\ jobs[j].status = FAILED
           /\ jobs[j].failureReason = "AWS account not found or disconnected"

DetailBlock == {"detail", "deleteMany", "create"}

\* C13: from the resource-drift fetch to the end of the snapshot replacement the
\* tick is working on a DETECTION_COMPLETE / DRIFTED result, and none of its steps
\* there, failed ones included, writes a job row or reaches the catch that
\* marks the job DETECTION_FAILED: the loop body ends, the replacement goes on,
\* or the process exits.
C13_DetailFailureKeepsComplete ==
  [][\A t \in TickIds :
       tick[t].pc \in DetailBlock /\ tick'[t] # tick[t] =>
         /\ Observed(t, "DRIFTED")
         /\ jobs' = jobs
         /\ tick'[t].pc \in {"deleteMany", "create", "iterEnd", "idle"}
         /\ tick'[t].error = NULL]_vars

\* C13 witness: the detail fetch failed for a DRIFTED job and the loop body has
\* ended with the job DETECTION_COMPLETE.
C13_Witness ==
  \E t \in TickIds :
    /\ tick[t].pc = "iterEnd"
    /\ tick[t].driftResult.driftStatus = "DRIFTED"
    /\ tick[t].error = NULL
    /\ ~tick[t].fetched
    /\ jobs[Cur(t)].status = COMPLETE
    /\ jobs[Cur(t)].failureReason = NULL

\* The loop body of tick t has ended after a DRIFTED result whose detail fetch
\* (getStackResourceDrifts or the stack lookup) threw into the inner catch.
DetailFetchFailed(t) ==
  /\ tick[t].pc = "iterEnd"
  /\ Observed(t, "DRIFTED")
  /\ tick[t].error = NULL
  /\ ~tick[t].fetched

\* C14: when the detail fetch has failed for a DRIFTED job, the stack record's
\* driftStatus is what it was before the tick (DETECTION_IN_PROGRESS since the
\* trigger, not DRIFTED) and the stack's snapshot rows are the earlier ones
\* (none).
C14_DetailFailureLeavesStack ==
  \A t \in TickIds :
    DetailFetchFailed(t) =>
      \A s \in JobStackRows(Cur(t)) :
        /\ s.driftStatus = IN_PROGRESS
        /\ ResultsOf(driftResults, s.id) = {}

\* C15: a tick's scan selects every job whose detail fetch has failed and not
\* succeeded since, so that the tick fetches the detail again.
C15_DetailRetriedNextTick ==
  [][\A t \in TickIds :
       tick[t].pc = "findMany" /\ tick'[t].pc \in {"poll", "done"} =>
         \A j \in refetch : \E i \in 1..Len(tick'[t].pending) : tick'[t].pending[i] = j]_vars

Abandoned(j) == jobs[j].status = IN_PROGRESS /\ jobs[j].startedAt < now - RetentionHours

\* C17: the stacks a successful GET /api/drift/stacks sends mark as stale every
\* stack whose jobs are all abandoned, which tells it from a stack with a
\* detection in progress.
C17_StaleReported ==
  req.kind = "list" /\ req.pc = "replied" /\ req.resp = 200 =>
    \A i \in 1..Len(req.awsStacks) :
      ( /\ \E j \in JobIds : jobs[j].stackName = req.awsStacks[i].stackName
        /\ \A j \in JobIds :
             jobs[j].stackName = req.awsStacks[i].stackName => Abandoned(j) )
      => /\ "stale" \in DOMAIN req.awsStacks[i]
         /\ req.awsStacks[i].stale

\* A trigger request of user u is received while u has no connected grant.
TriggerWithoutGrant(u) ==
  /\ ConnectedAccounts(u) = {}
  /\ req.pc = "idle"
  /\ req'.kind = "trigger"
  /\ req'.user = u

\* C18 as claimed: a trigger of an owner with no connected grant is answered
\* with the account-not-connected error (404), never with 500, and calls no
\* remote, creates no job and changes no stack record.
C18_NoGrantNever500 ==
  [][\A u \in Users :
       TriggerWithoutGrant(u) =>
         /\ req'.pc = "replied" /\ req'.resp = 404
         /\ remote' = remote /\ jobs' = jobs /\ stacks' = stacks]_vars

\* C18: a trigger of an owner with no connected grant is answered at once with
\* the account-not-connected error (404), or with 500 when the account query
\* itself threw, and calls no remote, creates no job and changes no stack record.
C18_NoGrantRejected ==
  [][\A u \in Users :
       TriggerWithoutGrant(u) =>
         /\ req'.pc = "replied" /\ req'.resp \in {404, 500}
         /\ remote' = remote /\ jobs' = jobs /\ stacks' = stacks]_vars

\* C18 witness: the owner's grant was deleted after a detection had been
\* triggered, and the next trigger is answered 404.
C18_Witness ==
  /\ req.kind = "trigger"
  /\ req.pc = "replied"
  /\ req.resp = 404
  /\ ConnectedAccounts(req.user) = {}
  /\ Len(jobs) = 1
  /\ Len(remote) = 1

\* ------------------------------------------------- connecting an account
MaxConnects == 3
ConnectRegions == {NULL, "eu-west-1"}
AccountRowIds == <<"c1", "c2", "c3", "c4">>

ConnReply(c, code, error) ==
  conn' = [conn EXCEPT !.req[c].pc = "replied", !.req[c].resp = code,
                       !.req[c].error = error]

\* Errors of testAwsConnection and of the findUnique query, as the catch block
\* of connectAwsHandler answers them.
ConnectErrors == {403, 500}

\* POST /api/connect-aws up to the create: testAwsConnection, then findUnique
\* on (userId, accountId), 409 when the account is already connected.
ConnectRequest(c, u, accountId, region) ==
  /\ conn.req[c].pc = "idle"
  /\ conn.started < MaxConnects
  /\ LET begun == [conn EXCEPT !.started = @ + 1, !.req[c].user = u,
                               !.req[c].accountId = accountId,
                               !.req[c].region = region]
     IN \/ \E code \in ConnectErrors :
             conn' = [begun EXCEPT !.req[c].pc = "replied", !.req[c].resp = code,
                                   !.req[c].error = "error"]
        \/ /\ \E a \in accounts : a.userId = u /\ a.accountId = accountId
           /\ conn' = [begun EXCEPT !.req[c].pc = "replied", !.req[c].resp = 409,
                                    !.req[c].error = "AWS account already connected"]
        \/ /\ ~\E a \in accounts : a.userId = u /\ a.accountId = accountId
           /\ conn' = [begun EXCEPT !.req[c].pc = "create"]
  /\ UNCHANGED <<accounts, stacks, nextStackId, driftResults, jobs, remote, now, tick,
                 req, owed, refetch, cfn>>

\* The store accepts every row, whatever rows exist.
UniqueViolationIgnored(rows, userId, accountId) == FALSE

\* @@unique([userId, accountId]): the store refuses a second row of the pair.
UniqueViolation(rows, userId, accountId) ==
  \E a \in rows : a.userId = userId /\ a.accountId = accountId

\* prisma.awsAccount.create and the reply: 201, or 409 when the catch block
\* finds 'Unique constraint' in the error, or 500 for any other store error.
ConnectCreate(c) ==
  /\ conn.req[c].pc = "create"
  /\ LET r == conn.req[c]
     IN \/ /\ UniqueViolation(accounts, r.user, r.accountId)
           /\ ConnReply(c, 409, "AWS account already exists")
           /\ UNCHANGED accounts
        \/ /\ ~UniqueViolation(accounts, r.user, r.accountId)
           /\ accounts' = accounts \cup
                {[id |-> AccountRowIds[conn.created + 1], userId |-> r.user,
                  accountId |-> r.accountId,
                  region |-> IF r.region = NULL THEN DefaultRegion ELSE r.region,
                  status |-> "connected", createdAt |-> now]}
           /\ conn' = [conn EXCEPT !.created = @ + 1, !.req[c].pc = "replied",
                                   !.req[c].resp = 201]
        \/ /\ ConnReply(c, 500, "Internal server error")
           /\ UNCHANGED accounts
  /\ UNCHANGED <<stacks, nextStackId, driftResults, jobs, remote, now, tick, req, owed,
                 refetch, cfn>>

ConnectReturn(c) ==
  /\ conn.req[c].pc = "replied"
  /\ conn' = [conn EXCEPT !.req[c] = IdleConn]
  /\ UNCHANGED <<accounts, stacks, nextStackId, driftResults, jobs, remote, now, tick,
                 req, owed, refetch, cfn>>

InitConnect ==
  /\ accounts = {}
  /\ stacks = {}
  /\ nextStackId = 1
  /\ driftResults = {}
  /\ jobs = <<>>
  /\ remote = <<>>
  /\ now = 0
  /\ tick = [t \in TickIds |-> IdleTick]
  /\ req = IdleReq
  /\ owed = <<>>
  /\ refetch = {}
  /\ cfn = WholeListing
  /\ conn = NoConnects

NextConnect ==
  \/ \E c \in ConnIds, u \in GrantUsers, a \in AccountIds, region \in ConnectRegions :
       ConnectRequest(c, u, a, region)
  \/ \E c \in ConnIds : ConnectCreate(c)
  \/ \E c \in ConnIds : ConnectReturn(c)
  \/ \E u \in GrantUsers, a \in AccountIds : DeleteAccount(u, a)

SpecConnect == InitConnect /\ [][NextConnect]_vars

\* ------------------------------------------- listing a paginated remote
MaxPageSize == 3
ListedStackNames == {"s1", "s2", "s3"}

Listings ==
  {[names |-> names, pageSize |-> n] :
     names \in {l \in UNION {[1..k -> ListedStackNames] : k \in 0..Cardinality(ListedStackNames)} :
                 \A i, j \in 1..Len(l) : l[i] = l[j] => i = j},
     n \in 1..MaxPageSize}

InitPages ==
  /\ accounts = {[id |-> "acc1", userId |-> "u1", accountId |-> "a1",
                  region |-> NULL, status |-> "connected", createdAt |-> 0]}
  /\ stacks = {}
  /\ nextStackId = 1
  /\ driftResults = {}
  /\ jobs = <<>>
  /\ remote = <<>>
  /\ now = 0
  /\ tick = [t \in TickIds |-> IdleTick]
  /\ req = IdleReq
  /\ owed = <<>>
  /\ refetch = {}
  /\ cfn \in Listings
  /\ conn = NoConnects

NextPages ==
  \/ \E u \in Users : ListRequest(u)
  \/ ListUpsert
  \/ ReqReturn

SpecPages == InitPages /\ [][NextPages]_vars

JobsOfDetection(rows, detId) ==
  {j \in 1..Len(rows) : rows[j].driftDetectionId = detId}

C20_ListingComplete ==
  req.kind = "list" /\ (req.pc = "upsert" \/ (req.pc = "replied" /\ req.resp = 200)) =>
    \A i \in 1..Len(cfn.names) :
      Cardinality({k \in 1..Len(req.awsStacks) :
                     req.awsStacks[k].stackName = cfn.names[i]}) = 1

GrantsOf(rows, userId, accountId) ==
  {a \in rows : a.userId = userId /\ a.accountId = accountId}

\* C21: after every connect and delete step at most one grant exists per
\* (userId, accountId), and a connect answered 409 found a grant of its pair
\* and left the grants unchanged.
C21_GrantUnique ==
  [][/\ \A u \in GrantUsers, a \in AccountIds : Cardinality(GrantsOf(accounts', u, a)) <= 1
     /\ \A c \in ConnIds :
          conn.req[c].pc # "replied" /\ conn'.req[c].pc = "replied" /\ conn'.req[c].resp = 409 =>
            /\ accounts' = accounts
            /\ GrantsOf(accounts, conn'.req[c].user, conn'.req[c].accountId) # {}]_vars

\* C21 witness: two connects of one owner and account both passed the
\* findUnique check; one created the grant and the other was refused by the
\* unique constraint.
C21_Witness ==
  /\ conn.req[1].pc = "replied" /\ conn.req[1].resp = 201
  /\ conn.req[2].pc = "replied" /\ conn.req[2].resp = 409
  /\ conn.req[2].error = "AWS account already exists"
  /\ conn.req[1].user = conn.req[2].user
  /\ conn.req[1].region # conn.req[2].region
  /\ Cardinality(accounts) = 1

\* C22: a step that deletes a grant leaves no stack record of that grant, no
\* snapshot row of such a stack and no drift job of the grant's account.
C22_RevokeCascades ==
  [][\A a \in accounts : a \notin accounts' =>
       /\ \A s \in stacks' : s.awsAccountDbId # a.id
       /\ \A r \in driftResults' : \E s \in stacks' : s.id = r.stackId
       /\ \A j \in 1..Len(jobs') : jobs'[j].awsAccountId # a.accountId]_vars

\* The steps of the loop body that can throw into the job's catch.
JobSteps == {"poll", "markMissing", "updateJob", "updateStack"}

Recorded(t) ==
  /\ tick'[t].pc = "iterEnd"
  /\ jobs'[Cur(t)].status = FAILED
  /\ jobs'[Cur(t)].failureReason = tick[t].error

TimeoutHours == 1

\* C24: once an invocation has run to its end, no job that started an hour or
\* more ago is still DETECTION_IN_PROGRESS.
C24_TimeoutMarksFailed ==
  (\E t \in TickIds : tick[t].pc = "done") =>
    \A j \in JobIds : now - jobs[j].startedAt >= TimeoutHours => jobs[j].status # IN_PROGRESS

\* C25: an invocation is in the detail block, or holds fetched drifts, only
\* after the remote answered DETECTION_COMPLETE and DRIFTED for its job, and a
\* snapshot row is deleted or created only by a delete or insert step of such
\* an invocation.
C25_DetailOnlyWhenDrifted ==
  [][/\ \A t \in TickIds :
          tick'[t].pc \in DetailBlock \/ tick'[t].fetched => Observed(t, "DRIFTED")'
     /\ driftResults' # driftResults =>
          \E t \in TickIds : /\ tick[t].pc \in {"deleteMany", "create"}
                              /\ tick'[t] # tick[t]
                              /\ Observed(t, "DRIFTED")]_vars

\* C25 witness: the remote answered DETECTION_COMPLETE and IN_SYNC, the stack
\* was updated, and the invocation ended the job's turn without a detail fetch
\* and with the snapshot empty as before.
C25_Witness ==
  \E t \in TickIds :
    /\ tick[t].pc = "iterEnd"
    /\ Observed(t, "IN_SYNC")
    /\ tick[t].error = NULL
    /\ \A s \in JobStackRows(Cur(t)) : s.driftStatus = "IN_SYNC"
    /\ driftResults = {}

\* C26: every step of an invocation whose job the remote reported as still in
\* progress leaves the job DETECTION_IN_PROGRESS with no failureReason and no
\* completedAt, and changes no stack record and no snapshot row.
C26_InProgressIsNoOp ==
  [][\A t \in TickIds :
       tick[t].pending # <<>> /\ tick[t].driftResult.status = IN_PROGRESS /\ tick'[t] # tick[t] =>
         /\ jobs'[Cur(t)].status = IN_PROGRESS
         /\ jobs'[Cur(t)].failureReason = NULL
         /\ jobs'[Cur(t)].completedAt = NoTime
         /\ stacks' = stacks
         /\ driftResults' = driftResults]_vars

\* C27: a job has a completedAt exactly when its status is DETECTION_COMPLETE
\* or DETECTION_FAILED.
C27_CompletedAtIffTerminal ==
  \A j \in JobIds : (jobs[j].completedAt # NoTime) <=> (jobs[j].status \in {COMPLETE, FAILED})

\* C27 witness: a tick has written a terminal status with its completedAt to
\* one job while another job is outstanding with none.
C27_Witness ==
  \E j, k \in JobIds :
    /\ jobs[j].status = IN_PROGRESS /\ jobs[j].completedAt = NoTime
    /\ jobs[k].status \in {COMPLETE, FAILED} /\ jobs[k].completedAt = now
    /\ \E t \in TickIds : tick[t].pc = "iterEnd" /\ Cur(t) = k

\* The owner whose trigger created the job of InitGrant.
TriggeringOwner == "u1"

\* C28: the grant an invocation has assumed for a job is a grant of the owner
\* who triggered the job.
C28_PolledWithOwnersGrant ==
  \A t \in TickIds :
    tick[t].pc \in {"updateJob", "updateStack", "detail", "deleteMany", "create"} =>
      tick[t].account.userId = TriggeringOwner

\* C29: when a trigger has answered 200, its job has a stack record, flagged
\* DETECTION_IN_PROGRESS.
C29_JobHasStackRecord ==
  req.kind = "trigger" /\ req.pc = "replied" /\ req.resp = 200 =>
    \A j \in JobsOfDetection(jobs, req.detId) :
      \E s \in JobStackRows(j) : s.driftStatus = IN_PROGRESS

\* C30: when an invocation has finished the turn of a job for which the remote
\* answered a terminal status, the job has that status.
C30_TerminalStatusAdopted ==
  \A t \in TickIds :
    tick[t].pc = "iterEnd" /\ tick[t].driftResult.status \in {COMPLETE, FAILED} =>
      jobs[Cur(t)].status = tick[t].driftResult.status

====
